---- MODULE Spec2Model ----
(***************************************************************************)
(* A model of the FinPlan.AI planner: the client-side financial store      *)
(* (useFinancialStore), the pages that post a snapshot of it to            *)
(* /api/analyze, the chat wizard with its form widgets, and the            *)
(* calculation formulas of the Technical Requirements Specification (TRS)  *)
(* next to the frontend's own derivations.                                 *)
(*                                                                         *)
(* Money is counted in thousands of rupees, the assumed rates in whole     *)
(* percent and the reported ratios in hundredths of a percent, so that all *)
(* arithmetic is exact.                                                    *)
(***************************************************************************)
EXTENDS Integers, Sequences, FiniteSets, TLC

VARIABLES
    store,      \* the zustand store: the FullState data fields
    page,       \* the mounted page component and its React state
    requests,   \* fetches of /api/analyze, scheduled or in flight
    engineIn,   \* the input handed to a calculation formula
    engineOut,  \* what the formula returned for engineIn, or NoResult
    chat        \* the ChatInterface: its messages, timers and mounted form

vars == <<store, page, requests, engineIn, engineOut, chat>>

(***************************************************************************)
(* Bounds of the model.                                                    *)
(***************************************************************************)
MaxLiabilities == 2     \* liabilities the add action will grow the list to
MaxInvestments == 1     \* investments the add action will grow the list to
MaxInflight == 2        \* analysis requests in flight at a time
MaxInflow == 7          \* the largest total inflow a ratio is taken of
MaxAmount == 2          \* the largest single outflow amount of a ratio input
MaxItems == 1           \* items per list in an asset or liability sheet
MaxGoals == 2           \* goals in an analysed list

(***************************************************************************)
(* Values.                                                                 *)
(***************************************************************************)
NoId == 0                       \* an item handed to an add action without id
NoResult == [kind |-> "none"]
Null == [null |-> TRUE]
IdValues == {1, 2}
EmiValues == {18}               \* the EMI of a loan added by hand, in thousands
SipValues == {10}
StaleValues == {7}              \* a linked value a caller writes directly

LiabilityInputs ==
    { [id |-> i, emi |-> e, outstanding |-> 10 * e] :
        i \in IdValues \cup {NoId}, e \in EmiValues }

InvestmentInputs ==
    { [id |-> i, current_value |-> 100, monthly_sip |-> s] :
        i \in IdValues \cup {NoId}, s \in SipValues }

(***************************************************************************)
(* Helpers: Array.prototype.reduce over a list, Array.prototype.filter,    *)
(* and the object spread { ...base, ...partial }.                          *)
(***************************************************************************)
RECURSIVE SumField(_, _)
SumField(list, f) ==
    IF list = <<>> THEN 0 ELSE Head(list)[f] + SumField(Tail(list), f)

RECURSIVE FilterOutId(_, _)
FilterOutId(list, id) ==
    IF list = <<>> THEN <<>>
    ELSE IF Head(list).id = id THEN FilterOutId(Tail(list), id)
         ELSE <<Head(list)>> \o FilterOutId(Tail(list), id)

Merge(base, partial) ==
    [k \in DOMAIN base \cup DOMAIN partial |->
        IF k \in DOMAIN partial THEN partial[k] ELSE base[k]]

\* { ...item, id: item.id || generateId() }
WithId(item, generated) ==
    [item EXCEPT !.id = IF item.id = NoId THEN generated ELSE item.id]

(***************************************************************************)
(* The store.                                                              *)
(***************************************************************************)
initialState ==
    [ user_profile |-> [primary |-> [name |-> ""], family_members |-> <<>>],
      goals |-> <<>>,
      liabilities |-> <<>>,
      assets |-> [investments |-> <<>>],
      cash_flow |->
        [ inflows |-> [primary_income |-> 0, spouse_income |-> 0,
                       rental_income |-> 0, additional_income |-> 0,
                       other |-> 0],
          outflows |-> [essential |-> 0, lifestyle |-> 0,
                        linked_emis |-> 0, linked_investments |-> 0] ],
      assumptions |-> [inflation |-> 6, child_inflation |-> 10,
                       pre_retire_roi |-> 12, post_retire_roi |-> 8],
      analysisResults |-> Null ]

\* A mutant of recalculateLinkedValues: the EMIs and SIPs are counted into the
\* essential expenses as well.
recalculateLinkedValuesIntoEssential(s) ==
    [s EXCEPT !.cash_flow.outflows.linked_emis =
                  SumField(s.liabilities, "emi"),
              !.cash_flow.outflows.linked_investments =
                  SumField(s.assets.investments, "monthly_sip"),
              !.cash_flow.outflows.essential =
                  @ + SumField(s.liabilities, "emi")
                    + SumField(s.assets.investments, "monthly_sip")]

\* A mutant of recalculateLinkedValues: the EMI total is not written back.
recalculateLinkedValuesSipOnly(s) ==
    [s EXCEPT !.cash_flow.outflows.linked_investments =
                  SumField(s.assets.investments, "monthly_sip")]

recalculateLinkedValues(s) ==
    [s EXCEPT !.cash_flow.outflows.linked_emis =
                  SumField(s.liabilities, "emi"),
              !.cash_flow.outflows.linked_investments =
                  SumField(s.assets.investments, "monthly_sip")]

setProfile(s, profile) == [s EXCEPT !.user_profile = profile]

setSpouse(s, spouse) ==
    [s EXCEPT !.user_profile = Merge(@, [spouse |-> spouse])]

removeFamilyMember(s, id) ==
    [s EXCEPT !.user_profile.family_members = FilterOutId(@, id)]

addGoal(s, goal, generated) ==
    [s EXCEPT !.goals = Append(@, WithId(goal, generated))]

removeGoal(s, id) == [s EXCEPT !.goals = FilterOutId(@, id)]

addInvestment(s, investment, generated) ==
    recalculateLinkedValues(
        [s EXCEPT !.assets.investments =
                      Append(@, WithId(investment, generated))])

removeInvestment(s, id) ==
    recalculateLinkedValues(
        [s EXCEPT !.assets.investments = FilterOutId(@, id)])

addLiability(s, liability, generated) ==
    recalculateLinkedValues(
        [s EXCEPT !.liabilities = Append(@, WithId(liability, generated))])

removeLiability(s, id) ==
    recalculateLinkedValues([s EXCEPT !.liabilities = FilterOutId(@, id)])

updateCashFlow(s, newCashFlow) ==
    [s EXCEPT !.cash_flow = Merge(@, newCashFlow)]

updateInflows(s, inflows) ==
    [s EXCEPT !.cash_flow.inflows = Merge(@, inflows)]

updateOutflows(s, outflows) ==
    [s EXCEPT !.cash_flow.outflows = Merge(@, outflows)]

updateAssumptions(s, newAssumptions) ==
    [s EXCEPT !.assumptions = Merge(@, newAssumptions)]

getPayload(s) ==
    [ user_profile |-> s.user_profile,
      goals |-> s.goals,
      liabilities |-> s.liabilities,
      assets |-> s.assets,
      cash_flow |-> s.cash_flow,
      assumptions |-> s.assumptions ]

reset(s) == Merge(s, initialState)

setAnalysisResults(s, results) == [s EXCEPT !.analysisResults = results]

RECURSIVE SumValues(_)
SumValues(r) ==
    IF DOMAIN r = {} THEN 0
    ELSE LET k == CHOOSE x \in DOMAIN r : TRUE
         IN  r[k] + SumValues([x \in DOMAIN r \ {k} |-> r[x]])

NoEssentialDetails ==
    [ house_rent |-> 0, maintenance |-> 0, property_tax |-> 0,
      utilities |-> 0, groceries |-> 0, transportation |-> 0,
      medical_expenses |-> 0, children_school_fees |-> 0,
      insurance_premiums |-> 0, other |-> 0 ]

NoLifestyleDetails ==
    [ maid_expense |-> 0, shopping |-> 0, travel |-> 0,
      dining_entertainment |-> 0, other |-> 0 ]

updateEssentialDetails(s, details) ==
    LET outflows == s.cash_flow.outflows
        currentDetails ==
            IF "essential_details" \in DOMAIN outflows
            THEN outflows.essential_details ELSE NoEssentialDetails
        newDetails == Merge(currentDetails, details)
    IN  [s EXCEPT !.cash_flow.outflows =
            Merge(@, [essential |-> SumValues(newDetails),
                      essential_details |-> newDetails])]

updateLifestyleDetails(s, details) ==
    LET outflows == s.cash_flow.outflows
        currentDetails ==
            IF "lifestyle_details" \in DOMAIN outflows
            THEN outflows.lifestyle_details ELSE NoLifestyleDetails
        newDetails == Merge(currentDetails, details)
    IN  [s EXCEPT !.cash_flow.outflows =
            Merge(@, [lifestyle |-> SumValues(newDetails),
                      lifestyle_details |-> newDetails])]

(***************************************************************************)
(* The load-test-data page: three fixed profiles and handleLoadData, which *)
(* resets the store and replays a profile through the store's actions.     *)
(***************************************************************************)
PROFILE_FAMILY ==
    [ user_profile |->
        [ primary |-> [name |-> "Rahul Sharma"],
          spouse |-> [name |-> "Priya Sharma"],
          family_members |->
            << [id |-> 1, name |-> "Arjun Sharma", relation_type |-> "CHILD"],
               [id |-> 2, name |-> "Ananya Sharma",
                relation_type |-> "CHILD"] >> ],
      goals |->
        << [id |-> 1, person_name |-> "Arjun Sharma", name |-> <<"Graduation">>],
           [id |-> 2, person_name |-> "Arjun Sharma",
            name |-> <<"Post Graduation">>],
           [id |-> 3, person_name |-> "Arjun Sharma", name |-> <<"Marriage">>],
           [id |-> 4, person_name |-> "Ananya Sharma",
            name |-> <<"Graduation">>],
           [id |-> 5, person_name |-> "Ananya Sharma", name |-> <<"Marriage">>],
           [id |-> 6, name |-> <<"Buy New Car">>] >>,
      investments |->
        << [id |-> 1, current_value |-> 2500, monthly_sip |-> 25],
           [id |-> 2, current_value |-> 800, monthly_sip |-> 10] >>,
      liabilities |->
        << [id |-> 1, emi |-> 35, outstanding |-> 3000],
           [id |-> 2, emi |-> 18, outstanding |-> 400] >>,
      inflows |-> [primary_income |-> 150, spouse_income |-> 80,
                   rental_income |-> 0, additional_income |-> 5, other |-> 0],
      outflows |->
        [ essential |-> 60, lifestyle |-> 25,
          linked_emis |-> 53, linked_investments |-> 35,
          essential_details |->
            [ house_rent |-> 0, maintenance |-> 5, property_tax |-> 1,
              utilities |-> 5, groceries |-> 15, transportation |-> 8,
              medical_expenses |-> 5, children_school_fees |-> 15,
              insurance_premiums |-> 3, other |-> 3 ],
          lifestyle_details |->
            [ maid_expense |-> 5, shopping |-> 8, travel |-> 4,
              dining_entertainment |-> 6, other |-> 2 ] ],
      assumptions |-> [inflation |-> 6, child_inflation |-> 10,
                       pre_retire_roi |-> 12, post_retire_roi |-> 8] ]

PROFILE_SINGLE ==
    [ user_profile |->
        [ primary |-> [name |-> "Vikram Malhotra"], family_members |-> <<>> ],
      goals |->
        << [id |-> 1, name |-> <<"Buy Apartment">>],
           [id |-> 2, name |-> <<"World Travel Fund">>],
           [id |-> 3, name |-> <<"Start Business">>] >>,
      investments |->
        << [id |-> 1, current_value |-> 4500, monthly_sip |-> 50],
           [id |-> 2, current_value |-> 2000, monthly_sip |-> 25] >>,
      liabilities |->
        << [id |-> 1, emi |-> 15, outstanding |-> 200] >>,
      inflows |-> [primary_income |-> 300, spouse_income |-> 0,
                   rental_income |-> 0, additional_income |-> 20, other |-> 0],
      outflows |->
        [ essential |-> 40, lifestyle |-> 50,
          linked_emis |-> 15, linked_investments |-> 75,
          essential_details |->
            [ house_rent |-> 25, maintenance |-> 2, property_tax |-> 0,
              utilities |-> 3, groceries |-> 5, transportation |-> 5,
              medical_expenses |-> 0, children_school_fees |-> 0,
              insurance_premiums |-> 0, other |-> 0 ],
          lifestyle_details |->
            [ maid_expense |-> 3, shopping |-> 15, travel |-> 15,
              dining_entertainment |-> 12, other |-> 5 ] ],
      assumptions |-> [inflation |-> 7, child_inflation |-> 10,
                       pre_retire_roi |-> 14, post_retire_roi |-> 9] ]

PROFILE_RETIRED ==
    [ user_profile |->
        [ primary |-> [name |-> "Suresh Iyer"],
          spouse |-> [name |-> "Lakshmi Iyer"],
          family_members |->
            << [id |-> 1, name |-> "Karthik Iyer",
                relation_type |-> "CHILD"] >> ],
      goals |->
        << [id |-> 1, person_name |-> "Karthik Iyer",
            name |-> <<"Higher Studies Abroad">>],
           [id |-> 2, person_name |-> "Karthik Iyer", name |-> <<"Marriage">>],
           [id |-> 3, name |-> <<"Pilgrimage Trip">>] >>,
      investments |->
        << [id |-> 1, current_value |-> 8000, monthly_sip |-> 30] >>,
      liabilities |-> <<>>,
      inflows |-> [primary_income |-> 350, spouse_income |-> 0,
                   rental_income |-> 50, additional_income |-> 0, other |-> 0],
      outflows |->
        [ essential |-> 80, lifestyle |-> 40,
          linked_emis |-> 0, linked_investments |-> 30,
          essential_details |->
            [ house_rent |-> 0, maintenance |-> 10, property_tax |-> 5,
              utilities |-> 8, groceries |-> 20, transportation |-> 10,
              medical_expenses |-> 15, children_school_fees |-> 0,
              insurance_premiums |-> 5, other |-> 7 ],
          lifestyle_details |->
            [ maid_expense |-> 8, shopping |-> 10, travel |-> 10,
              dining_entertainment |-> 8, other |-> 4 ] ],
      assumptions |-> [inflation |-> 5, child_inflation |-> 10,
                       pre_retire_roi |-> 10, post_retire_roi |-> 7] ]

PROFILES == {PROFILE_FAMILY, PROFILE_SINGLE, PROFILE_RETIRED}

\* list.forEach(x => store.addInvestment(x)), list.forEach(x => store.addLiability(x))
RECURSIVE AddInvestments(_, _)
AddInvestments(s, list) ==
    IF list = <<>> THEN s
    ELSE AddInvestments(addInvestment(s, Head(list), NoId), Tail(list))

RECURSIVE AddGoals(_, _)
AddGoals(s, list) ==
    IF list = <<>> THEN s
    ELSE AddGoals(addGoal(s, Head(list), NoId), Tail(list))

RECURSIVE AddLiabilities(_, _)
AddLiabilities(s, list) ==
    IF list = <<>> THEN s
    ELSE AddLiabilities(addLiability(s, Head(list), NoId), Tail(list))

handleLoadData(s, profile) ==
    LET p1 == setProfile(reset(s), profile.user_profile)
        p2 == IF "spouse" \in DOMAIN profile.user_profile
              THEN setSpouse(p1, profile.user_profile.spouse)
              ELSE p1
        s0 == AddGoals(p2, profile.goals)
        s1 == AddInvestments(s0, profile.investments)
        s2 == AddLiabilities(s1, profile.liabilities)
        s3 == updateOutflows(updateInflows(s2, profile.inflows),
                             profile.outflows)
        s4 == IF "essential_details" \in DOMAIN profile.outflows
              THEN updateEssentialDetails(s3, profile.outflows.essential_details)
              ELSE s3
        s5 == IF "lifestyle_details" \in DOMAIN profile.outflows
              THEN updateLifestyleDetails(s4, profile.outflows.lifestyle_details)
              ELSE s4
    IN  recalculateLinkedValues(updateAssumptions(s5, profile.assumptions))

(***************************************************************************)
(* Inputs of the store's actions.                                          *)
(***************************************************************************)
InflowInputs ==
    { [primary_income |-> 150, spouse_income |-> 80, additional_income |-> 5] }

OutflowInputs ==
    { [essential |-> 60], [lifestyle |-> 25] }
    \cup { [linked_emis |-> v] : v \in StaleValues }
    \cup { [linked_investments |-> v] : v \in StaleValues }

CashFlowInputs ==
    { [outflows |-> [essential |-> 60, lifestyle |-> 25,
                     linked_emis |-> 7, linked_investments |-> 7]] }

EssentialDetailInputs == { [groceries |-> 15] }
LifestyleDetailInputs == { [travel |-> 4] }

(***************************************************************************)
(* The store's actions, as steps of the system.                            *)
(***************************************************************************)
StoreStep(next) ==
    /\ store' = next
    /\ UNCHANGED <<page, requests, engineIn, engineOut, chat>>

AddInvestment ==
    \E investment \in InvestmentInputs, generated \in IdValues :
        /\ Len(store.assets.investments) < MaxInvestments
        /\ StoreStep(addInvestment(store, investment, generated))

RemoveInvestment ==
    \E id \in IdValues : StoreStep(removeInvestment(store, id))

AddLiability ==
    \E liability \in LiabilityInputs, generated \in IdValues :
        /\ Len(store.liabilities) < MaxLiabilities
        /\ StoreStep(addLiability(store, liability, generated))

RemoveLiability ==
    \E id \in IdValues : StoreStep(removeLiability(store, id))

UpdateCashFlow ==
    \E newCashFlow \in CashFlowInputs :
        StoreStep(updateCashFlow(store, newCashFlow))

UpdateInflows ==
    \E inflows \in InflowInputs : StoreStep(updateInflows(store, inflows))

UpdateOutflows ==
    \E outflows \in OutflowInputs : StoreStep(updateOutflows(store, outflows))

UpdateEssentialDetails ==
    \E details \in EssentialDetailInputs :
        StoreStep(updateEssentialDetails(store, details))

UpdateLifestyleDetails ==
    \E details \in LifestyleDetailInputs :
        StoreStep(updateLifestyleDetails(store, details))

RecalculateLinkedValues == StoreStep(recalculateLinkedValues(store))

Reset == StoreStep(reset(store))

HandleLoadData ==
    \E profile \in PROFILES : StoreStep(handleLoadData(store, profile))

(***************************************************************************)
(* The pages that post the store's snapshot to /api/analyze: the summary   *)
(* dashboard, the AI report page and the financial report page.  One page  *)
(* is mounted at a time; a fetch started by a page that has since been     *)
(* unmounted still runs to its end, but its setState calls do nothing.     *)
(* The backend's answer to a payload is kept as [of |-> payload].          *)
(***************************************************************************)
\* Each request remembers in staleBefore whether the store's linked values
\* were off their sums when its fetch began (a history field no handler
\* reads).
LinkedValuesDerived(s) ==
    /\ s.cash_flow.outflows.linked_emis = SumField(s.liabilities, "emi")
    /\ s.cash_flow.outflows.linked_investments =
           SumField(s.assets.investments, "monthly_sip")

NoPage == [name |-> "none"]

InitialEditableParams ==
    [inflation |-> 6, preRetireRoi |-> 12, postRetireRoi |-> 8]

Analysis(payload) == [of |-> payload]

Orphaned(reqs) == [i \in DOMAIN reqs |-> [reqs[i] EXCEPT !.live = FALSE]]

RemoveAt(seq, i) == SubSeq(seq, 1, i - 1) \o SubSeq(seq, i + 1, Len(seq))

\* A mutant of SnapshotPayload: the payload is read without recalculating
\* first.
SnapshotPayloadAsStored(s) == getPayload(s)

\* state.recalculateLinkedValues(); const payload = state.getPayload();
SnapshotPayload(s) == getPayload(recalculateLinkedValues(s))

\* { ...state.getPayload(), assumptions: { inflation: ..., pre_retire_roi: ...,
\*   post_retire_roi: ... } } of FinancialReportPage.fetchAnalysis
FinancialPayload(s, params) ==
    Merge(SnapshotPayload(s),
          [assumptions |-> [inflation |-> params.inflation,
                            pre_retire_roi |-> params.preRetireRoi,
                            post_retire_roi |-> params.postRetireRoi]])

\* The mount effect of SummaryDashboard: fetchAnalysis().
SummaryDashboardMounts ==
    /\ Len(requests) < MaxInflight
    /\ page' = [name |-> "summary", results |-> Null, loading |-> TRUE,
                error |-> FALSE]
    /\ store' = recalculateLinkedValues(store)
    /\ requests' = Append(Orphaned(requests),
                          [page |-> "summary", phase |-> "posted",
                           payload |-> SnapshotPayload(store), live |-> TRUE,
                           staleBefore |-> ~LinkedValuesDerived(store)])

MountSummaryDashboard ==
    /\ SummaryDashboardMounts
    /\ UNCHANGED <<engineIn, engineOut, chat>>

MountReportPageCached ==
    /\ store.analysisResults # Null
    /\ page' = [name |-> "report", results |-> store.analysisResults,
                loading |-> FALSE, error |-> FALSE]
    /\ requests' = Orphaned(requests)
    /\ UNCHANGED <<store, engineIn, engineOut, chat>>

MountReportPageFetch ==
    /\ store.analysisResults = Null
    /\ Len(requests) < MaxInflight
    /\ page' = [name |-> "report", results |-> Null, loading |-> TRUE,
                error |-> FALSE]
    /\ store' = recalculateLinkedValues(store)
    /\ requests' = Append(Orphaned(requests),
                          [page |-> "report", phase |-> "posted",
                           payload |-> SnapshotPayload(store), live |-> TRUE,
                           staleBefore |-> ~LinkedValuesDerived(store)])
    /\ UNCHANGED <<engineIn, engineOut, chat>>

\* The mount effect: editableParams are set from the store and the first
\* fetch is left to a 100 ms timer, which runs the fetchAnalysis of the
\* first render, whose editableParams are the initial ones.
MountFinancialReportPage ==
    /\ Len(requests) < MaxInflight
    /\ page' = [name |-> "financial", results |-> Null, loading |-> TRUE,
                error |-> FALSE, recalculating |-> FALSE,
                editableParams |->
                    [inflation |-> store.assumptions.inflation,
                     preRetireRoi |-> store.assumptions.pre_retire_roi,
                     postRetireRoi |-> store.assumptions.post_retire_roi]]
    /\ requests' = Append(Orphaned(requests),
                          [page |-> "financial", phase |-> "scheduled",
                           params |-> InitialEditableParams, live |-> TRUE])
    /\ UNCHANGED <<store, engineIn, engineOut, chat>>

FinancialTimerFires ==
    \E i \in DOMAIN requests :
        /\ requests[i].phase = "scheduled"
        /\ store' = recalculateLinkedValues(store)
        /\ requests' = [requests EXCEPT ![i] =
               [page |-> "financial", phase |-> "posted",
                payload |-> FinancialPayload(store, requests[i].params),
                live |-> requests[i].live,
                staleBefore |-> ~LinkedValuesDerived(store)]]
        /\ page' = IF requests[i].live
                   THEN [page EXCEPT !.recalculating = TRUE] ELSE page
        /\ UNCHANGED <<engineIn, engineOut, chat>>

\* The Recalculate button is rendered once a result is shown, and disabled
\* while a fetch is running.
HandleRecalculate ==
    /\ page.name = "financial"
    /\ ~page.loading /\ ~page.error /\ page.results # Null
    /\ ~page.recalculating
    /\ Len(requests) < MaxInflight
    /\ store' = recalculateLinkedValues(store)
    /\ requests' = Append(requests,
                          [page |-> "financial", phase |-> "posted",
                           payload |-> FinancialPayload(store, page.editableParams),
                           live |-> TRUE,
                           staleBefore |-> ~LinkedValuesDerived(store)])
    /\ page' = [page EXCEPT !.recalculating = TRUE]
    /\ UNCHANGED <<engineIn, engineOut, chat>>

\* res.ok: setResults(data), and setAnalysisResults(data) on the two pages
\* that share their result through the store.
ResponseOk ==
    \E i \in DOMAIN requests :
        LET r == requests[i]
            data == Analysis(r.payload)
        IN  /\ r.phase = "posted"
            /\ requests' = RemoveAt(requests, i)
            /\ store' = IF r.page \in {"summary", "report"}
                        THEN setAnalysisResults(store, data) ELSE store
            /\ page' = IF ~r.live THEN page
                       ELSE IF r.page = "financial"
                       THEN [page EXCEPT !.results = data, !.error = FALSE,
                                         !.loading = FALSE,
                                         !.recalculating = FALSE]
                       ELSE [page EXCEPT !.results = data, !.loading = FALSE]
            /\ UNCHANGED <<engineIn, engineOut, chat>>

\* !res.ok, or fetch rejects: setError(...)
ResponseFailed ==
    \E i \in DOMAIN requests :
        LET r == requests[i]
        IN  /\ r.phase = "posted"
            /\ requests' = RemoveAt(requests, i)
            /\ page' = IF ~r.live THEN page
                       ELSE IF r.page = "financial"
                       THEN [page EXCEPT !.error = TRUE, !.loading = FALSE,
                                         !.recalculating = FALSE]
                       ELSE [page EXCEPT !.error = TRUE, !.loading = FALSE]
            /\ UNCHANGED <<store, engineIn, engineOut, chat>>

\* A mutant of Rendered: the error is shown as a banner above whatever else
\* the page has to show.
RenderedWithBanner(p) ==
    IF p.name = "none" THEN {}
    ELSE IF p.loading THEN {"spinner"}
    ELSE (IF p.error THEN {"error"} ELSE {})
         \cup (IF p.results # Null THEN {"results"} ELSE {})

\* What a page presents: the render guards, in their order.
Rendered(p) ==
    IF p.name = "none" THEN {}
    ELSE IF p.loading THEN {"spinner"}
    ELSE IF p.error THEN {"error"}
    ELSE IF p.results # Null THEN {"results"}
    ELSE {}

(***************************************************************************)
(* The pages, with the store changing under them.                          *)
(***************************************************************************)
\* The test-data page loading the family profile, the one with two loans.
LoadFamilyProfile == StoreStep(handleLoadData(store, PROFILE_FAMILY))

\* A caller writing a linked value of its own into the store.
WriteLinkedEmis ==
    \E v \in StaleValues : StoreStep(updateOutflows(store, [linked_emis |-> v]))

\* The user deleting a loan in the liability form: the profile's second.
RemoveSecondLoan == StoreStep(removeLiability(store, 2))

NextAnalyze ==
    \/ LoadFamilyProfile
    \/ Reset
    \/ WriteLinkedEmis
    \/ RemoveSecondLoan
    \/ MountSummaryDashboard
    \/ MountReportPageCached
    \/ MountReportPageFetch
    \/ MountFinancialReportPage
    \/ FinancialTimerFires
    \/ HandleRecalculate
    \/ ResponseOk
    \/ ResponseFailed

\* The financial report page opened on a store that any of the test profiles
\* may have filled.
NextReport ==
    \/ HandleLoadData
    \/ Reset
    \/ MountFinancialReportPage
    \/ FinancialTimerFires
    \/ HandleRecalculate
    \/ ResponseOk
    \/ ResponseFailed

(***************************************************************************)
(* The chat wizard of the planner page: ChatInterface and the form widgets *)
(* it dispatches to.  A widget's form is mounted while its message is      *)
(* active; the form's React state is kept in chat.form and is built anew   *)
(* from the store at every mount.  handleContinue leaves the next step to  *)
(* a 1200 ms timer; chat.timers lists the timers not yet fired.            *)
(***************************************************************************)
IncomeValues == {350}           \* a primary income typed into the form
LumpValues == {60}              \* a lump expense total typed into the form
ItemValues == {15}              \* an itemized expense typed into the form
LoanAmountValues == {0, 100}    \* a total loan amount typed into the form
OutstandingValues == {0, 200}   \* an outstanding amount typed into the form

NoForm == [widget |-> "none"]

\* { text, widget }: what a widget hands to onComplete as the next step.
NextStepOf(text, widget) == [text |-> text, widget |-> widget]

NoNextStep == NextStepOf("", "none")

BotMessage(text, widget) ==
    [sender |-> "bot", text |-> text, widget |-> widget, status |-> "active",
     widgetData |-> Null, nextStep |-> NoNextStep]

\* generateId(): a random token, taken to be one that no item of the list has.
FreshId(list) ==
    CHOOSE g \in 1..(Len(list) + 1) :
        /\ \A i \in DOMAIN list : list[i].id # g
        /\ \A h \in 1..(g - 1) : \E i \in DOMAIN list : list[i].id = h

\* x || d
OrDefault(x, d) == IF x = 0 THEN d ELSE x

\* The useState initialisers of CashFlowForm, followed by its mount effect.
MountCashFlowForm(s) ==
    LET outflows == s.cash_flow.outflows
        hasEssential == "essential_details" \in DOMAIN outflows
        hasLifestyle == "lifestyle_details" \in DOMAIN outflows
    IN  [ widget |-> "cashflow",
          showEssentialDetails |-> hasEssential,
          showLifestyleDetails |-> hasLifestyle,
          inflows |->
            [primary_income |-> s.cash_flow.inflows.primary_income,
             spouse_income |-> s.cash_flow.inflows.spouse_income,
             rental_income |-> s.cash_flow.inflows.rental_income,
             additional_income |-> s.cash_flow.inflows.additional_income],
          essential |-> IF hasEssential THEN outflows.essential_details
                        ELSE NoEssentialDetails,
          lifestyle |-> IF hasLifestyle THEN outflows.lifestyle_details
                        ELSE NoLifestyleDetails,
          simpleTotals |-> [essential |-> outflows.essential,
                            lifestyle |-> outflows.lifestyle],
          localAssumptions |->
            [inflation |-> OrDefault(s.assumptions.inflation, 12),
             pre_retire_roi |-> OrDefault(s.assumptions.pre_retire_roi, 12),
             post_retire_roi |-> OrDefault(s.assumptions.post_retire_roi, 8)] ]

\* export type LiabilityType
LiabilityTypes == {"Home", "Car", "Personal", "Other"}

\* The SelectItem values of the form's Loan Type select.
LoanTypeOptions == {"Home", "Car", "Personal", "Education", "Other"}

NoLoanData ==
    [type |-> "Home", total_loan_amount |-> 0, outstanding |-> 0, emi |-> 0]

NoInvestmentData == [current_value |-> 0, monthly_sip |-> 0]

\* The new-goal fields of GoalForm.
NoNewGoal == [person_name |-> "", name |-> ""]

\* The useState initialisers of FamilyDetailsForm: the primary user's name
\* and date of birth come from the store, the spouse starts disabled and the
\* list of children empty.
MountFamilyForm(s) ==
    [widget |-> "family",
     primary |-> [name |-> s.user_profile.primary.name],
     children |-> <<>>]

MountForm(widget, s) ==
    IF widget = "cashflow" THEN MountCashFlowForm(s)
    ELSE IF widget = "family" THEN MountFamilyForm(s)
    ELSE IF widget = "goals"
    THEN [widget |-> "goals", newGoal |-> NoNewGoal]
    ELSE IF widget = "assets"
    THEN [widget |-> "assets", investment |-> NoInvestmentData]
    ELSE IF widget = "liabilities"
    THEN [widget |-> "liabilities", hasLiability |-> FALSE,
          data |-> NoLoanData]
    ELSE [widget |-> widget]

InitialChat ==
    [ messages |-> <<BotMessage("Welcome to your AI Financial Planner!", "family")>>,
      timers |-> <<>>,
      form |-> MountForm("family", initialState) ]

\* The totals CashFlowForm derives from its state at every render.
FormTotalInflowEarned(f) ==
    f.inflows.primary_income + f.inflows.spouse_income
        + f.inflows.additional_income

FormTotalInflow(f) ==
    f.inflows.primary_income + f.inflows.spouse_income
        + f.inflows.rental_income + f.inflows.additional_income

FormTotalEssential(f) ==
    IF f.showEssentialDetails THEN SumValues(f.essential)
    ELSE f.simpleTotals.essential

FormTotalLifestyle(f) ==
    IF f.showLifestyleDetails THEN SumValues(f.lifestyle)
    ELSE f.simpleTotals.lifestyle

FormTotalExpenses(f) == FormTotalEssential(f) + FormTotalLifestyle(f)

FormLeftover(f) == FormTotalInflow(f) - FormTotalExpenses(f)

\* setMessages(prev => ...) of handleWidgetComplete: the last message, if it
\* is the bot's, goes to review; its widget is no longer rendered.
handleWidgetComplete(c, nextStep, summary) ==
    LET n == Len(c.messages)
    IN  IF n > 0 /\ c.messages[n].sender = "bot"
        THEN [c EXCEPT !.messages[n] =
                           [@ EXCEPT !.status = "review",
                                     !.widgetData = summary,
                                     !.nextStep = nextStep],
                       !.form = NoForm]
        ELSE c

ActiveWidget(widget) ==
    /\ chat.form.widget = widget
    /\ \E i \in DOMAIN chat.messages :
           /\ chat.messages[i].widget = widget
           /\ chat.messages[i].status = "active"

\* A step of the chat or of a form that leaves the pages alone.
ChatStep(nextStore, nextChat) ==
    /\ store' = nextStore
    /\ chat' = nextChat
    /\ UNCHANGED <<page, requests, engineIn, engineOut>>

FormStep(nextForm) == ChatStep(store, [chat EXCEPT !.form = nextForm])

\* The text messages the user sends while the wizard runs.
MaxUserMessages == 2

\* A user message carries no widget, status, widgetData or nextStep.
UserMessage ==
    [sender |-> "user", text |-> "...", widget |-> "none", status |-> "none",
     widgetData |-> Null, nextStep |-> NoNextStep]

UserMessages(c) == SelectSeq(c.messages, LAMBDA m : m.sender = "user")

\* handleSend with a non-blank input.
HandleSend ==
    /\ Len(UserMessages(chat)) < MaxUserMessages
    /\ ChatStep(store, [chat EXCEPT !.messages = Append(@, UserMessage)])

HandleEdit ==
    \E i \in DOMAIN chat.messages :
        /\ chat.messages[i].status = "review"
        /\ ChatStep(store,
               [chat EXCEPT !.messages[i].status = "active",
                            !.form = MountForm(chat.messages[i].widget,
                                               store)])

HandleContinueKeepsReview ==
    \E i \in DOMAIN chat.messages :
        /\ chat.messages[i].status = "review"
        /\ Len(chat.timers) < 1
        /\ ChatStep(store,
               [chat EXCEPT !.timers = Append(@, chat.messages[i].nextStep)])

HandleContinue ==
    \E i \in DOMAIN chat.messages :
        /\ chat.messages[i].status = "review"
        /\ ChatStep(store,
               [chat EXCEPT !.messages[i].status = "locked",
                            !.timers = Append(@, chat.messages[i].nextStep)])

\* The timer of handleContinue appends the next step's message, whose
\* widget mounts with it; a summary widget starts its fetch as it mounts.
NextStepTimer ==
    /\ chat.timers # <<>>
    /\ LET text == Head(chat.timers).text
           widget == Head(chat.timers).widget
       IN  /\ chat' = [chat EXCEPT
                          !.timers = Tail(@),
                          !.messages = Append(@, BotMessage(text, widget)),
                          !.form = MountForm(widget, store)]
           /\ IF widget = "summary"
              THEN SummaryDashboardMounts
              ELSE UNCHANGED <<store, page, requests>>
    /\ UNCHANGED <<engineIn, engineOut>>

\* The names typed into the family form.
PrimaryNames == {"Ravi"}
ChildNames == {"Asha"}

MaxChildren == 1

\* The user fills in a blank name and date of birth of the primary user.
FamilySetPrimary ==
    /\ ActiveWidget("family")
    /\ chat.form.primary.name = ""
    /\ \E n \in PrimaryNames : FormStep([chat.form EXCEPT !.primary.name = n])

\* addChild with a name and an age typed in.
FamilyAddChild ==
    /\ ActiveWidget("family")
    /\ Len(chat.form.children) < MaxChildren
    /\ \E n \in ChildNames :
           FormStep([chat.form EXCEPT
                        !.children = Append(@, [id |-> FreshId(@),
                                                name |-> n])])

FamilyRemoveChild ==
    /\ ActiveWidget("family")
    /\ \E i \in DOMAIN chat.form.children :
           FormStep([chat.form EXCEPT
                        !.children = FilterOutId(@, chat.form.children[i].id)])

\* The profile FamilyDetailsForm.handleSubmit hands to setProfile, with the
\* spouse and the parents left disabled.
FamilyFormProfile(f) ==
    [ primary |-> [name |-> f.primary.name],
      family_members |->
        [i \in DOMAIN f.children |->
            [id |-> f.children[i].id, name |-> f.children[i].name,
             relation_type |-> "CHILD"]] ]

\* FamilyDetailsForm.handleSubmit; its button is disabled while the primary
\* user's name or date of birth is blank.
FamilySubmit ==
    /\ ActiveWidget("family")
    /\ chat.form.primary.name # ""
    /\ ChatStep(setProfile(store, FamilyFormProfile(chat.form)),
                handleWidgetComplete(chat, NextStepOf("Thanks!", "cashflow"),
                                     [widget |-> "family"]))

CashFlowSetIncome ==
    /\ ActiveWidget("cashflow")
    /\ \E v \in IncomeValues :
           FormStep([chat.form EXCEPT !.inflows.primary_income = v])

CashFlowToggleEssential ==
    /\ ActiveWidget("cashflow")
    /\ FormStep([chat.form EXCEPT !.showEssentialDetails = ~@])

CashFlowToggleLifestyle ==
    /\ ActiveWidget("cashflow")
    /\ FormStep([chat.form EXCEPT !.showLifestyleDetails = ~@])

\* The itemized inputs are rendered in detail mode, the lump input otherwise.
CashFlowSetEssential ==
    /\ ActiveWidget("cashflow")
    /\ \/ /\ chat.form.showEssentialDetails
          /\ \E v \in ItemValues :
                 FormStep([chat.form EXCEPT !.essential.house_rent = v])
       \/ /\ ~chat.form.showEssentialDetails
          /\ \E v \in LumpValues :
                 FormStep([chat.form EXCEPT !.simpleTotals.essential = v])

CashFlowSetLifestyle ==
    /\ ActiveWidget("cashflow")
    /\ \/ /\ chat.form.showLifestyleDetails
          /\ \E v \in ItemValues :
                 FormStep([chat.form EXCEPT !.lifestyle.shopping = v])
       \/ /\ ~chat.form.showLifestyleDetails
          /\ \E v \in LumpValues :
                 FormStep([chat.form EXCEPT !.simpleTotals.lifestyle = v])

\* A mutant of CashFlowFormStores: the lump total is written in both modes.
CashFlowFormStoresLump(s, f) ==
    updateAssumptions(
        updateOutflows(
            updateOutflows(updateInflows(s, f.inflows),
                           [essential |-> f.simpleTotals.essential]),
            [lifestyle |-> f.simpleTotals.lifestyle]),
        f.localAssumptions)

\* The store calls of CashFlowForm.handleSubmit, in their order.
CashFlowFormStores(s, f) ==
    LET s1 == updateInflows(s, f.inflows)
        s2 == IF f.showEssentialDetails
              THEN updateEssentialDetails(s1, f.essential)
              ELSE updateOutflows(s1, [essential |-> f.simpleTotals.essential])
        s3 == IF f.showLifestyleDetails
              THEN updateLifestyleDetails(s2, f.lifestyle)
              ELSE updateOutflows(s2, [lifestyle |-> f.simpleTotals.lifestyle])
    IN  updateAssumptions(s3, f.localAssumptions)

\* rawData.totals of CashFlowForm.handleSubmit
CashFlowRawData(f) ==
    [totals |-> [inflow |-> FormTotalInflow(f),
                 expenses |-> FormTotalExpenses(f),
                 surplus |-> FormLeftover(f)]]

CashFlowSubmit ==
    /\ ActiveWidget("cashflow")
    /\ ChatStep(CashFlowFormStores(store, chat.form),
                handleWidgetComplete(chat, NextStepOf("Great!", "goals"),
                                     CashFlowRawData(chat.form)))

MaxStoredGoals == 4

\* familyMembers of GoalForm: the names its person select offers.
GoalFormFamilyMembers(s) ==
    LET profile == s.user_profile
        self == IF profile.primary.name = "" THEN "Self"
                ELSE profile.primary.name
        spouse == IF "spouse" \in DOMAIN profile
                  THEN {profile.spouse.name} ELSE {}
        members == { profile.family_members[i].name :
                        i \in DOMAIN profile.family_members }
    IN  ({self} \cup spouse \cup members) \ {""}

\* onValueChange of the person select, whose first item has the value
\* "general".
GoalChoosePerson ==
    /\ ActiveWidget("goals")
    /\ \E v \in {"general"} \cup GoalFormFamilyMembers(store) :
           FormStep([chat.form EXCEPT !.newGoal.person_name = v])

\* The goal's name, cost and target typed in or taken from a template.
GoalSetName ==
    /\ ActiveWidget("goals")
    /\ FormStep([chat.form EXCEPT !.newGoal.name = "Marriage"])

\* The goal GoalForm.handleAddGoal hands to addGoal.
GoalOf(newGoal) ==
    IF newGoal.person_name # ""
    THEN [id |-> NoId, person_name |-> newGoal.person_name,
          name |-> <<newGoal.person_name, newGoal.name>>]
    ELSE [id |-> NoId, name |-> <<newGoal.name>>]

GoalHandleAddGoal ==
    /\ ActiveWidget("goals")
    /\ chat.form.newGoal.name # ""
    /\ Len(store.goals) < MaxStoredGoals
    /\ ChatStep(addGoal(store, GoalOf(chat.form.newGoal),
                        FreshId(store.goals)),
                [chat EXCEPT !.form.newGoal = NoNewGoal])

GoalRemoveGoal ==
    /\ ActiveWidget("goals")
    /\ \E i \in DOMAIN store.goals :
           ChatStep(removeGoal(store, store.goals[i].id), chat)

\* GoalForm.handleSubmit
GoalSubmit ==
    /\ ActiveWidget("goals")
    /\ ChatStep(store,
                handleWidgetComplete(chat,
                    NextStepOf("Now let's look at your assets", "assets"),
                    [widget |-> "goals"]))

AssetsSetInvestment ==
    /\ ActiveWidget("assets")
    /\ \E v \in SipValues :
           FormStep([chat.form EXCEPT
                        !.investment = [current_value |-> 100,
                                        monthly_sip |-> v]])

AssetsAddInvestment ==
    /\ ActiveWidget("assets")
    /\ Len(store.assets.investments) < MaxInvestments
    /\ ChatStep(addInvestment(store,
                              [id |-> NoId,
                               current_value |->
                                   chat.form.investment.current_value,
                               monthly_sip |->
                                   chat.form.investment.monthly_sip],
                              FreshId(store.assets.investments)),
                [chat EXCEPT !.form.investment = NoInvestmentData])

AssetsRemoveInvestment ==
    /\ ActiveWidget("assets")
    /\ \E i \in DOMAIN store.assets.investments :
           ChatStep(removeInvestment(store, store.assets.investments[i].id),
                    chat)

AssetsSubmit ==
    /\ ActiveWidget("assets")
    /\ ChatStep(store,
                handleWidgetComplete(chat,
                    NextStepOf("Now let's check your liabilities",
                               "liabilities"),
                    [widget |-> "assets"]))

\* The first screen of LiabilityForm: "Yes, I have loans" or "No loans".
LiabilityChooseYes ==
    /\ ActiveWidget("liabilities")
    /\ ~chat.form.hasLiability
    /\ FormStep([chat.form EXCEPT !.hasLiability = TRUE])

LiabilityHandleNone ==
    /\ ActiveWidget("liabilities")
    /\ ~chat.form.hasLiability
    /\ ChatStep(store,
                handleWidgetComplete(chat, NextStepOf("Understood.", "summary"),
                                     [widget |-> "liabilities"]))

LiabilitySetData ==
    /\ ActiveWidget("liabilities")
    /\ chat.form.hasLiability
    /\ \/ \E v \in LoanAmountValues :
              FormStep([chat.form EXCEPT !.data.total_loan_amount = v])
       \/ \E v \in OutstandingValues :
              FormStep([chat.form EXCEPT !.data.outstanding = v])
       \/ \E v \in EmiValues \cup {0} :
              FormStep([chat.form EXCEPT !.data.emi = v])

\* onValueChange of the Loan Type select: v as LiabilityType
LiabilitySetType ==
    /\ ActiveWidget("liabilities")
    /\ chat.form.hasLiability
    /\ \E v \in LoanTypeOptions : FormStep([chat.form EXCEPT !.data.type = v])

\* What LiabilityForm.handleAddLoan hands to addLiability.
LoanOf(data) ==
    [id |-> NoId,
     type |-> data.type,
     total_loan_amount |-> OrDefault(data.total_loan_amount, data.outstanding),
     outstanding |-> data.outstanding,
     emi |-> data.emi]

LiabilityHandleAddLoan ==
    /\ ActiveWidget("liabilities")
    /\ chat.form.hasLiability
    /\ Len(store.liabilities) < MaxLiabilities
    /\ IF chat.form.data.outstanding # 0 /\ chat.form.data.emi # 0
       THEN ChatStep(addLiability(store, LoanOf(chat.form.data),
                                  FreshId(store.liabilities)),
                     [chat EXCEPT !.form.data = NoLoanData])
       ELSE ChatStep(store, chat)

LiabilityRemoveLoan ==
    /\ ActiveWidget("liabilities")
    /\ chat.form.hasLiability
    /\ \E i \in DOMAIN store.liabilities :
           ChatStep(removeLiability(store, store.liabilities[i].id), chat)

LiabilityHandleSubmit ==
    /\ ActiveWidget("liabilities")
    /\ chat.form.hasLiability
    /\ ChatStep(store,
                handleWidgetComplete(chat, NextStepOf("Perfect!", "summary"),
                                     [widget |-> "liabilities"]))

\* The user who leaves the first four forms as they are mounted and fills
\* in the liability form.
NextLoans ==
    \/ HandleEdit
    \/ HandleContinue
    \/ NextStepTimer
    \/ FamilySetPrimary
    \/ FamilySubmit
    \/ CashFlowSubmit
    \/ GoalSubmit
    \/ AssetsSubmit
    \/ LiabilityChooseYes
    \/ LiabilityHandleNone
    \/ LiabilitySetType
    \/ LiabilitySetData
    \/ LiabilityHandleAddLoan
    \/ LiabilityRemoveLoan
    \/ LiabilityHandleSubmit
    \/ ResponseOk
    \/ ResponseFailed

\* The user who leaves every form as it is mounted, answers "no loans" and
\* types text messages into the chat input along the way.
NextChat ==
    \/ HandleSend
    \/ HandleEdit
    \/ HandleContinue
    \/ NextStepTimer
    \/ FamilySetPrimary
    \/ FamilySubmit
    \/ CashFlowSubmit
    \/ GoalSubmit
    \/ AssetsSubmit
    \/ LiabilityHandleNone
    \/ ResponseOk
    \/ ResponseFailed

\* The wizard up to the end of its cash-flow step.
NextCashFlow ==
    \/ HandleEdit
    \/ HandleContinue
    \/ NextStepTimer
    \/ FamilySetPrimary
    \/ FamilySubmit
    \/ CashFlowSetIncome
    \/ CashFlowToggleEssential
    \/ CashFlowToggleLifestyle
    \/ CashFlowSetEssential
    \/ CashFlowSetLifestyle
    \/ CashFlowSubmit

\* The user who fills in the family form and the goal form.
NextFamily ==
    \/ HandleEdit
    \/ HandleContinue
    \/ NextStepTimer
    \/ FamilySetPrimary
    \/ FamilyAddChild
    \/ FamilyRemoveChild
    \/ FamilySubmit
    \/ CashFlowSubmit
    \/ GoalChoosePerson
    \/ GoalSetName
    \/ GoalHandleAddGoal
    \/ GoalRemoveGoal
    \/ GoalSubmit

NextWizard ==
    \/ HandleEdit
    \/ HandleContinue
    \/ NextStepTimer
    \/ FamilySetPrimary
    \/ FamilySubmit
    \/ CashFlowSetIncome
    \/ CashFlowToggleEssential
    \/ CashFlowToggleLifestyle
    \/ CashFlowSetEssential
    \/ CashFlowSetLifestyle
    \/ CashFlowSubmit
    \/ GoalSubmit
    \/ AssetsSetInvestment
    \/ AssetsAddInvestment
    \/ AssetsRemoveInvestment
    \/ AssetsSubmit
    \/ LiabilityChooseYes
    \/ LiabilityHandleNone
    \/ LiabilitySetData
    \/ LiabilityHandleAddLoan
    \/ LiabilityRemoveLoan
    \/ LiabilityHandleSubmit
    \/ ResponseOk
    \/ ResponseFailed


(***************************************************************************)
(* The calculation formulas of the TRS.  The formulas are written over     *)
(* floats; here a number is an exact fraction [num, den] in lowest terms   *)
(* with den > 0, which is what the float stands for.                       *)
(***************************************************************************)
Abs(n) == IF n < 0 THEN -n ELSE n

RECURSIVE GCD(_, _)
GCD(a, b) == IF b = 0 THEN a ELSE GCD(b, a % b)

Rat(n, d) ==
    LET g == GCD(Abs(n), Abs(d))
        sgn == IF d < 0 THEN -1 ELSE 1
    IN  [num |-> sgn * (n \div g), den |-> sgn * (d \div g)]

FromInt(n) == [num |-> n, den |-> 1]

RatAdd(x, y) ==
    LET g == GCD(x.den, y.den)
    IN  Rat(x.num * (y.den \div g) + y.num * (x.den \div g),
            (x.den \div g) * y.den)

RatNeg(x) == [num |-> -x.num, den |-> x.den]

RatSub(x, y) == RatAdd(x, RatNeg(y))

\* the common factors are cancelled crosswise before multiplying, so that
\* no intermediate product is larger than the result's own terms
RatMul(x, y) ==
    LET g1 == GCD(Abs(x.num), y.den)
        g2 == GCD(Abs(y.num), x.den)
    IN  IF x.num = 0 \/ y.num = 0 THEN FromInt(0)
        ELSE [num |-> (x.num \div g1) * (y.num \div g2),
              den |-> (x.den \div g2) * (y.den \div g1)]

\* y # 0
RatInv(y) ==
    IF y.num < 0 THEN [num |-> -y.den, den |-> -y.num]
    ELSE [num |-> y.den, den |-> y.num]

RatDiv(x, y) == RatMul(x, RatInv(y))

RECURSIVE RatPow(_, _)
RatPow(x, n) == IF n = 0 THEN FromInt(1) ELSE RatMul(x, RatPow(x, n - 1))

RatLeq(x, y) == x.num * y.den <= y.num * x.den

RatLt(x, y) == x.num * y.den < y.num * x.den

\* a rate given in percent, as the decimal the formulas take (0.06 for 6%)
Percent(p) == Rat(p, 100)

\* A mutant of calculate_extra_sip_required: the gap is not looked at before
\* the formula is applied.
calculate_extra_sip_unguarded(retirement_gap, months_to_retire, annual_roi) ==
    IF months_to_retire <= 0
    THEN FromInt(0)
    ELSE LET monthly_rate == RatDiv(annual_roi, FromInt(12))
             growth == RatAdd(FromInt(1), monthly_rate)
         IN  IF RatLt(FromInt(0), monthly_rate)
             THEN RatDiv(RatMul(retirement_gap, monthly_rate),
                         RatMul(RatSub(RatPow(growth, months_to_retire),
                                       FromInt(1)),
                                growth))
             ELSE RatDiv(retirement_gap, FromInt(months_to_retire))

\* 3.4 Extra SIP Required (PMT formula)
calculate_extra_sip_required(retirement_gap, months_to_retire, annual_roi) ==
    IF RatLeq(retirement_gap, FromInt(0)) \/ months_to_retire <= 0
    THEN FromInt(0)
    ELSE LET monthly_rate == RatDiv(annual_roi, FromInt(12))
             growth == RatAdd(FromInt(1), monthly_rate)
         IN  IF RatLt(FromInt(0), monthly_rate)
             THEN RatDiv(RatMul(retirement_gap, monthly_rate),
                         RatMul(RatSub(RatPow(growth, months_to_retire),
                                       FromInt(1)),
                                growth))
             ELSE RatDiv(retirement_gap, FromInt(months_to_retire))

\* 3.5 Cash Flow Calculations
TotalInflow(inflows) ==
    inflows.primary_income + inflows.spouse_income + inflows.rental_income
    + inflows.additional_income + inflows.other

TotalEMIs(liabilities) == SumField(liabilities, "emi")

TotalOutflows(flow) ==
    flow.total_essential + flow.total_lifestyle + flow.total_emis
    + flow.total_investments

\* A mutant of Leftover: what is left after expenses alone, as the cash-flow
\* form shows it.
LeftoverAfterExpenses(flow) ==
    flow.total_inflow - flow.total_essential - flow.total_lifestyle

Leftover(flow) == flow.total_inflow - TotalOutflows(flow)

\* The totals of a snapshot's cash flow.
CashFlowTotals(snapshot) ==
    [ total_inflow |-> TotalInflow(snapshot.cash_flow.inflows),
      total_essential |-> snapshot.cash_flow.outflows.essential,
      total_lifestyle |-> snapshot.cash_flow.outflows.lifestyle,
      total_emis |-> TotalEMIs(snapshot.liabilities),
      total_investments |->
          SumField(snapshot.assets.investments, "monthly_sip") ]

\* 3.6 Financial Ratios: each a percentage of Total Inflow
PercentOfInflow(amount, total_inflow) ==
    RatMul(Rat(amount, total_inflow), FromInt(100))

FinancialRatios(flow) ==
    [ savings_rate |-> PercentOfInflow(Leftover(flow), flow.total_inflow),
      emi_burden |-> PercentOfInflow(flow.total_emis, flow.total_inflow),
      investment_rate |->
          PercentOfInflow(flow.total_investments, flow.total_inflow),
      essential_expense_percent |->
          PercentOfInflow(flow.total_essential, flow.total_inflow),
      lifestyle_expense_percent |->
          PercentOfInflow(flow.total_lifestyle, flow.total_inflow) ]

\* Output rounding to 2 decimal places, ties to the even neighbour: the
\* rounded value, counted in hundredths.
Round2(x) ==
    LET n == x.num * 100
        q == n \div x.den
        r == n - q * x.den
    IN  IF 2 * r < x.den THEN q
        ELSE IF 2 * r > x.den THEN q + 1
        ELSE IF q % 2 = 0 THEN q ELSE q + 1

RoundedRatios(flow) ==
    LET ratios == FinancialRatios(flow)
    IN  [k \in DOMAIN ratios |-> Round2(ratios[k])]

\* 3.7 Net Worth Calculation
RECURSIVE InsuranceMaturityValue(_)
InsuranceMaturityValue(insurance_policies) ==
    IF insurance_policies = <<>> THEN 0
    ELSE (IF "maturity_amount" \in DOMAIN Head(insurance_policies)
          THEN Head(insurance_policies).maturity_amount ELSE 0)
         + InsuranceMaturityValue(Tail(insurance_policies))

TotalAssets(assets) ==
    SumField(assets.real_estate, "present_value")
    + SumField(assets.bank_accounts, "balance")
    + SumField(assets.investments, "current_value")
    + InsuranceMaturityValue(assets.insurance_policies)
    + assets.liquid_cash

TotalLiabilities(liabilities) == SumField(liabilities, "outstanding")

\* A mutant of NetWorth: a negative net worth is reported as 0.
NetWorthFloored(assets, liabilities) ==
    IF TotalAssets(assets) < TotalLiabilities(liabilities) THEN 0
    ELSE TotalAssets(assets) - TotalLiabilities(liabilities)

NetWorth(assets, liabilities) ==
    TotalAssets(assets) - TotalLiabilities(liabilities)

\* The chat's summary of the assets step: the "Total Net Assets" row.
SummaryViewerAssetsTotal(data) ==
    LET reTotal == SumField(data.real_estate, "present_value")
        bankTotal == SumField(data.bank_accounts, "balance")
        invTotal == SumField(data.investments, "current_value")
    IN  reTotal + bankTotal + invTotal + data.liquid_cash

\* 3.1 Time-Based Calculations: days / 365.25
calculate_age(days_lived) == Rat(4 * days_lived, 1461)

\* calculateAge of FamilyDetailsForm:
\* Math.floor((today - birthDate) / (365.25 * 24 * 60 * 60 * 1000)), with the
\* time lived counted in hours instead of milliseconds.
calculateAge(hours_lived) == hours_lived \div 8766

\* convertAgeToDob of FamilyDetailsForm: today's month and day in the year
\* that lies age years back.
convertAgeToDob(age, today) ==
    [year |-> today.year - age, month |-> today.month, day |-> today.day]

IsLeapYear(y) == (y % 4 = 0 /\ y % 100 # 0) \/ y % 400 = 0

DaysInMonth(y, m) ==
    IF m = 2 THEN (IF IsLeapYear(y) THEN 29 ELSE 28)
    ELSE IF m \in {4, 6, 9, 11} THEN 30 ELSE 31

RECURSIVE DaysBeforeMonth(_, _)
DaysBeforeMonth(y, m) ==
    IF m = 1 THEN 0 ELSE DaysBeforeMonth(y, m - 1) + DaysInMonth(y, m - 1)

\* The day count of midnight UTC of a calendar date, as new Date("YYYY-MM-DD")
\* places it on the time line.
DayNumber(date) ==
    LET y == date.year - 1
    IN  365 * y + (y \div 4) - (y \div 100) + (y \div 400)
        + DaysBeforeMonth(date.year, date.month) + date.day

\* calculateAge(convertAgeToDob(age)) at the given hour of today, UTC.
AgeOfEnteredAge(age, today, hour) ==
    calculateAge(24 * (DayNumber(today) - DayNumber(convertAgeToDob(age, today)))
                 + hour)

\* A goal's target_value is a target age (AGE) or the number of days from
\* today to the target date (DATE); days_lived is the age in days of the
\* person an AGE goal belongs to.
YearsToGoal(goal) ==
    IF goal.target_type = "AGE"
    THEN RatSub(FromInt(goal.target_value), calculate_age(goal.days_lived))
    ELSE Rat(4 * goal.target_value, 1461)

\* 3.2 Goal Future Cost, for a whole number of years
calculate_future_cost(current_cost, inflation, years) ==
    RatMul(FromInt(current_cost), RatPow(RatAdd(FromInt(1), inflation), years))

\* round(), ties to the even neighbour
RoundInt(x) == Round2(x) \div 100

\* A mutant of PastDue: a goal is past due only once its date has passed.
PastDueStrict(years_to_goal) == RatLt(years_to_goal, FromInt(0))

\* A goal whose resolved years-to-goal is <= 0 is PAST_DUE.
PastDue(years_to_goal) == RatLeq(years_to_goal, FromInt(0))

\* The goal analysis: a past-due goal keeps its current cost as future cost
\* and needs no SIP; any other goal is projected at the inflation rate and
\* funded over its months at the pre-retirement ROI.  "ACTIVE" stands for
\* the feasibility grades of a goal that is not past due.
AnalyzeGoal(goal, assumptions) ==
    LET years_to_goal == YearsToGoal(goal)
        past_due == PastDue(years_to_goal)
        months_to_goal ==
            IF past_due THEN 0 ELSE RoundInt(RatMul(years_to_goal, FromInt(12)))
        future_cost ==
            IF past_due THEN FromInt(goal.current_cost)
            ELSE calculate_future_cost(goal.current_cost, assumptions.inflation,
                                       years_to_goal.num \div years_to_goal.den)
    IN  [ years_to_goal |-> years_to_goal,
          months_to_goal |-> months_to_goal,
          future_cost |-> future_cost,
          monthly_sip |->
              IF past_due THEN FromInt(0)
              ELSE calculate_extra_sip_required(future_cost, months_to_goal,
                                                assumptions.pre_retire_roi),
          status |-> IF past_due THEN "PAST_DUE" ELSE "ACTIVE" ]

AnalyzeGoals(goals, assumptions) ==
    [i \in DOMAIN goals |-> AnalyzeGoal(goals[i], assumptions)]

RECURSIVE TotalMonthlySIPForAllGoals(_)
TotalMonthlySIPForAllGoals(analysed) ==
    IF analysed = <<>> THEN FromInt(0)
    ELSE RatAdd(Head(analysed).monthly_sip,
                TotalMonthlySIPForAllGoals(Tail(analysed)))

NoEngineInput == [kind |-> "none"]

Init ==
    /\ store = initialState
    /\ page = NoPage
    /\ requests = <<>>
    /\ engineIn = NoEngineInput
    /\ engineOut = NoResult
    /\ chat = InitialChat

Next ==
    \/ AddInvestment
    \/ RemoveInvestment
    \/ AddLiability
    \/ RemoveLiability
    \/ UpdateCashFlow
    \/ UpdateInflows
    \/ UpdateOutflows
    \/ UpdateEssentialDetails
    \/ UpdateLifestyleDetails
    \/ RecalculateLinkedValues
    \/ Reset
    \/ HandleLoadData

Spec == Init /\ [][Next]_vars

SpecAnalyze == Init /\ [][NextAnalyze]_vars

\* The planner page is opened on a fresh store, or on one that the test-data
\* page has loaded the retired profile into.
InitWizard ==
    /\ store \in {initialState, handleLoadData(initialState, PROFILE_RETIRED)}
    /\ page = NoPage
    /\ requests = <<>>
    /\ engineIn = NoEngineInput
    /\ engineOut = NoResult
    /\ chat = [InitialChat EXCEPT !.form = MountForm("family", store)]

SpecWizard == InitWizard /\ [][NextWizard]_vars

SpecLoans == Init /\ [][NextLoans]_vars

SpecCashFlow == InitWizard /\ [][NextCashFlow]_vars

SpecFamily == InitWizard /\ [][NextFamily]_vars

SpecChat == Init /\ [][NextChat]_vars

SpecReport == Init /\ [][NextReport]_vars

(***************************************************************************)
(* The formulas applied to inputs.  An input is drawn at the start; the    *)
(* formula of its kind is applied once and its result kept in engineOut.   *)
(***************************************************************************)
RECURSIVE SeqsUpTo(_, _)
SeqsUpTo(S, n) ==
    IF n = 0 THEN {<<>>}
    ELSE SeqsUpTo(S, n - 1)
         \cup { Append(q, x) : q \in { t \in SeqsUpTo(S, n - 1) : Len(t) = n - 1 },
                               x \in S }

RatioInputs ==
    { [ kind |-> "ratios",
        snapshot |->
          [ cash_flow |->
              [ inflows |-> [primary_income |-> inflow, spouse_income |-> 0,
                             rental_income |-> 0, additional_income |-> 0,
                             other |-> 0],
                outflows |-> [essential |-> essential,
                              lifestyle |-> lifestyle] ],
            liabilities |-> <<[emi |-> emi]>>,
            assets |-> [investments |-> <<[monthly_sip |-> sip]>>] ] ] :
        inflow \in 1..MaxInflow, essential \in 0..MaxAmount,
        lifestyle \in 0..MaxAmount, emi \in 0..MaxAmount,
        sip \in 0..MaxAmount }

InsuranceChoices ==
    { [premium |-> 1], [premium |-> 1, maturity_amount |-> 60] }

SheetInputs ==
    { [ assets |->
          [ real_estate |-> re, bank_accounts |-> bank, investments |-> inv,
            insurance_policies |-> ins, liquid_cash |-> cash ],
        liabilities |-> liab ] :
        re \in SeqsUpTo({[present_value |-> 50]}, MaxItems),
        bank \in SeqsUpTo({[balance |-> 2]}, MaxItems),
        inv \in SeqsUpTo({[current_value |-> 3]}, MaxItems),
        ins \in SeqsUpTo(InsuranceChoices, MaxItems),
        cash \in {0, 1},
        liab \in SeqsUpTo({[outstanding |-> 4], [outstanding |-> 200]},
                          MaxItems) }

NetWorthInputs == { [kind |-> "net_worth", sheet |-> sh] : sh \in SheetInputs }

AssetsSummaryInputs ==
    { [kind |-> "assets_summary", sheet |-> sh] : sh \in SheetInputs }

GapValues == {-50, 0, 50}
MonthValues == {-12, 0, 1, 2, 3}
RoiPercents == {-12, 0, 12, 24}

ExtraSipInputs ==
    { [ kind |-> "extra_sip", retirement_gap |-> FromInt(gap),
        months_to_retire |-> months, annual_roi |-> Percent(roi) ] :
        gap \in GapValues, months \in MonthValues, roi \in RoiPercents }

\* Goals a whole number of years away or not ahead at all: a day ago,
\* today, four years on; and for a person aged 16, at 12, 16 and 20.
GoalChoices ==
    { [current_cost |-> 100, target_type |-> "DATE", target_value |-> d] :
        d \in {-1, 0, 1461} }
    \cup { [current_cost |-> 100, target_type |-> "AGE", target_value |-> a,
            days_lived |-> 5844] : a \in {12, 16, 20} }

GoalAssumptions == [inflation |-> Percent(6), pre_retire_roi |-> Percent(0)]

GoalInputs ==
    { [kind |-> "goals", goals |-> g, assumptions |-> GoalAssumptions] :
        g \in SeqsUpTo(GoalChoices, MaxGoals) \ {<<>>} }

(***************************************************************************)
(* MoneyInput.  The text of the input element is a sequence of characters; *)
(* a number is kept as the decimal digits of its integer and fraction      *)
(* parts, which a double holds exactly up to fifteen digits.               *)
(***************************************************************************)
MaxTextLen == 2     \* the length of the arbitrary texts handed to the input
MaxDigits == 13     \* the longest run of digits handed to the input

DigitChars == {"0", "1", "9"}
TextChars == DigitChars \cup {",", ".", "-"}

RECURSIVE Repeat(_, _)
Repeat(c, n) == IF n = 0 THEN <<>> ELSE <<c>> \o Repeat(c, n - 1)

MoneyTexts ==
    SeqsUpTo(TextChars, MaxTextLen)
    \cup { Repeat("9", n) : n \in 1..MaxDigits }
    \cup { <<"1">> \o Repeat("0", n - 1) : n \in 1..MaxDigits }

MoneyInputs == { [kind |-> "money", text |-> t] : t \in MoneyTexts }

\* input.replace(/,/g, '')
RECURSIVE WithoutCommas(_)
WithoutCommas(text) ==
    IF text = <<>> THEN <<>>
    ELSE IF Head(text) = "," THEN WithoutCommas(Tail(text))
         ELSE <<Head(text)>> \o WithoutCommas(Tail(text))

Dots(text) == {i \in DOMAIN text : text[i] = "."}

\* /^\d*\.?\d*$/.test(raw)
MatchesNumberPattern(raw) ==
    /\ \A i \in DOMAIN raw : raw[i] \in DigitChars \cup {"."}
    /\ Cardinality(Dots(raw)) <= 1

RECURSIVE StripLeadingZeros(_)
StripLeadingZeros(digits) ==
    IF digits # <<>> /\ Head(digits) = "0"
    THEN StripLeadingZeros(Tail(digits)) ELSE digits

RECURSIVE StripTrailingZeros(_)
StripTrailingZeros(digits) ==
    IF digits # <<>> /\ digits[Len(digits)] = "0"
    THEN StripTrailingZeros(SubSeq(digits, 1, Len(digits) - 1)) ELSE digits

\* Number(raw) of a text that matches the pattern: NaN for a lone ".", else
\* the decimal the text spells ("" is 0).
NumberOf(raw) ==
    IF raw = <<".">> THEN [nan |-> TRUE]
    ELSE LET dot == IF Dots(raw) = {} THEN Len(raw) + 1
                    ELSE CHOOSE i \in Dots(raw) : TRUE
         IN  [nan |-> FALSE, negative |-> FALSE,
              int |-> StripLeadingZeros(SubSeq(raw, 1, dot - 1)),
              frac |-> StripTrailingZeros(SubSeq(raw, dot + 1, Len(raw)))]

Zero == [nan |-> FALSE, negative |-> FALSE, int |-> <<>>, frac |-> <<>>]

NoChange == [nan |-> FALSE, none |-> TRUE]

\* What handleChange passes to onChange for the text of the input element,
\* or NoChange when it returns without calling onChange.
handleChange(input) ==
    LET raw == WithoutCommas(input)
    IN  IF ~MatchesNumberPattern(raw) THEN NoChange
        ELSE IF raw = <<>> THEN Zero
        ELSE IF NumberOf(raw).nan THEN NoChange
        ELSE NumberOf(raw)

DayValues == {0, 200, 365, 366, 1461, 1500}    \* whole days lived
HourValues == {0, 12}                           \* the hour of the day, UTC

AgeInputs ==
    { [kind |-> "age", days_lived |-> d, hour |-> h] :
        d \in DayValues, h \in HourValues }

MaxAge == 5                                    \* the whole ages entered

TodayValues ==
    { [year |-> 2026, month |-> 11, day |-> 6],
      [year |-> 2024, month |-> 3, day |-> 1],
      [year |-> 2024, month |-> 2, day |-> 28] }

EnteredAgeInputs ==
    { [kind |-> "entered_age", age |-> a, today |-> t, hour |-> h] :
        a \in 0..MaxAge, t \in TodayValues, h \in HourValues }

EngineInputs ==
    RatioInputs \cup NetWorthInputs \cup AssetsSummaryInputs
    \cup ExtraSipInputs \cup GoalInputs \cup AgeInputs \cup MoneyInputs
    \cup EnteredAgeInputs

Computes(kind, result) ==
    /\ engineIn.kind = kind
    /\ engineOut = NoResult
    /\ engineOut' = result
    /\ UNCHANGED <<store, page, requests, engineIn, chat>>

CalculateRatios ==
    Computes("ratios",
             LET flow == CashFlowTotals(engineIn.snapshot)
             IN  [kind |-> "ratios", leftover |-> Leftover(flow),
                  ratios |-> RoundedRatios(flow)])

CalculateNetWorth ==
    Computes("net_worth",
             [kind |-> "net_worth",
              total_assets |-> TotalAssets(engineIn.sheet.assets),
              total_liabilities |->
                  TotalLiabilities(engineIn.sheet.liabilities),
              net_worth |-> NetWorth(engineIn.sheet.assets,
                                     engineIn.sheet.liabilities)])

ViewAssetsSummary ==
    Computes("assets_summary",
             [kind |-> "assets_summary",
              total |-> SummaryViewerAssetsTotal(engineIn.sheet.assets)])

CalculateExtraSip ==
    Computes("extra_sip",
             [kind |-> "extra_sip",
              extra_sip_required |->
                  calculate_extra_sip_required(engineIn.retirement_gap,
                                               engineIn.months_to_retire,
                                               engineIn.annual_roi)])

AnalyzeGoalList ==
    Computes("goals",
             LET analysed == AnalyzeGoals(engineIn.goals, engineIn.assumptions)
             IN  [kind |-> "goals", goals |-> analysed,
                  total_monthly_sip |-> TotalMonthlySIPForAllGoals(analysed)])

MoneyInputChanges ==
    Computes("money",
             [kind |-> "money", emitted |-> handleChange(engineIn.text)])

\* The age of a person born at midnight UTC, as the engine and as the family
\* details form derive it.
DeriveAges ==
    Computes("age",
             [kind |-> "age",
              engine |-> calculate_age(engineIn.days_lived),
              family_form |->
                  calculateAge(24 * engineIn.days_lived + engineIn.hour)])

\* FamilyDetailsForm.handleSubmit turns a member's entered age into a date
\* of birth, from which the member's age is derived again.
EnterAge ==
    Computes("entered_age",
             [kind |-> "entered_age",
              dob |-> convertAgeToDob(engineIn.age, engineIn.today),
              age |-> AgeOfEnteredAge(engineIn.age, engineIn.today,
                                      engineIn.hour)])

InitEngine ==
    /\ store = initialState
    /\ page = NoPage
    /\ requests = <<>>
    /\ engineIn \in EngineInputs
    /\ engineOut = NoResult
    /\ chat = InitialChat

NextEngine ==
    \/ CalculateRatios
    \/ CalculateNetWorth
    \/ ViewAssetsSummary
    \/ CalculateExtraSip
    \/ AnalyzeGoalList
    \/ DeriveAges
    \/ EnterAge
    \/ MoneyInputChanges

SpecEngine == InitEngine /\ [][NextEngine]_vars

(***************************************************************************)
(* Linked cash-flow values                                                 *)
(***************************************************************************)
\* C1: in every state the store can reach by its actions, linked_emis is the
\* sum of the stored liabilities' emi and linked_investments the sum of the
\* stored investments' monthly_sip.  updateOutflows and updateCashFlow write
\* whatever they are given, so this does not hold.
C1_LinkedValuesAlwaysDerived == LinkedValuesDerived(store)

\* C2: right after addLiability, removeLiability, addInvestment or
\* removeInvestment, linked_emis is the sum of emi over the liabilities now
\* stored and linked_investments the sum of monthly_sip over the investments
\* now stored.
C2_LinkedValuesAfterAddRemove ==
    [][(AddLiability \/ RemoveLiability \/ AddInvestment \/ RemoveInvestment)
           => LinkedValuesDerived(store')]_vars

\* Two loans of EMI 18 and one SIP of 10 are stored, which no test profile
\* holds: the store got there by adding them, and carries the totals 36, 10.
C2_Witness ==
    /\ Len(store.liabilities) = 2
    /\ \A i \in 1..2 : store.liabilities[i].emi = 18
    /\ Len(store.assets.investments) = 1
    /\ store.assets.investments[1].monthly_sip = 10
    /\ store.cash_flow.outflows.linked_emis = 36
    /\ store.cash_flow.outflows.linked_investments = 10

\* C3: every payload posted to /api/analyze, by any of the three pages,
\* carries linked_emis equal to the sum of emi of its own liabilities and
\* linked_investments equal to the sum of monthly_sip of its own
\* investments, whatever linked values the store held when the fetch began.
C3_PostedSnapshotsDerived ==
    \A i \in DOMAIN requests :
        requests[i].phase = "posted" =>
            LinkedValuesDerived(requests[i].payload)

\* A request in flight for loans of EMI 35 and 18: the store held the stale
\* linked_emis 7 when the fetch began, the payload carries 53.
C3_Witness ==
    \E i \in DOMAIN requests :
        /\ requests[i].phase = "posted"
        /\ requests[i].staleBefore
        /\ Len(requests[i].payload.liabilities) = 2
        /\ requests[i].payload.liabilities[1].emi = 35
        /\ requests[i].payload.liabilities[2].emi = 18
        /\ requests[i].payload.cash_flow.outflows.linked_emis = 53

(***************************************************************************)
(* Ratios                                                                  *)
(***************************************************************************)
\* The five reported percentages added up, in hundredths of a percent.
RoundedRatioSum ==
    engineOut.ratios.savings_rate + engineOut.ratios.emi_burden
    + engineOut.ratios.investment_rate
    + engineOut.ratios.essential_expense_percent
    + engineOut.ratios.lifestyle_expense_percent

C5_NetWorthIsAssetsMinusLiabilities ==
    engineOut.kind = "net_worth" =>
        /\ engineOut.net_worth
               = engineOut.total_assets - engineOut.total_liabilities
        /\ engineOut.total_assets = TotalAssets(engineIn.sheet.assets)
        /\ engineOut.total_liabilities
               = TotalLiabilities(engineIn.sheet.liabilities)
        /\ (engineOut.total_assets = 0 /\ engineOut.total_liabilities = 0
                => engineOut.net_worth = 0)
        /\ (engineOut.total_liabilities > engineOut.total_assets
                => engineOut.net_worth < 0)

\* A loan of 200 against assets of 55: the net worth reported is -145.
C5_Witness ==
    /\ engineOut.kind = "net_worth"
    /\ engineOut.total_assets = 55
    /\ engineOut.total_liabilities = 200
    /\ engineOut.net_worth = -145

\* C6: the total-assets figure shown for a snapshot is the sum of the real
\* estate present values, bank balances, investment current values,
\* insurance maturity amounts and liquid cash.  The summary's total leaves
\* the maturity amounts out, so this does not hold.
C6_AssetsTotalIncludesMaturity ==
    engineOut.kind = "assets_summary" =>
        engineOut.total = TotalAssets(engineIn.sheet.assets)

(***************************************************************************)
(* Extra SIP                                                               *)
(***************************************************************************)
\* C7: ExtraSIPRequired is 0 whenever RetirementGap <= 0 or
\* MonthsToRetire <= 0, at every rate; it is positive only when both are
\* positive.
C7_ExtraSipZeroWithoutGapOrMonths ==
    engineOut.kind = "extra_sip" =>
        /\ (engineIn.retirement_gap.num <= 0 \/ engineIn.months_to_retire <= 0
                => engineOut.extra_sip_required = FromInt(0))
        /\ (engineOut.extra_sip_required.num > 0
                => engineIn.retirement_gap.num > 0
                   /\ engineIn.months_to_retire > 0)

\* A surplus of 50 with 3 months to go at 12%: no extra SIP.
C7_Witness ==
    /\ engineOut.kind = "extra_sip"
    /\ engineIn.retirement_gap = FromInt(-50)
    /\ engineIn.months_to_retire = 3
    /\ engineIn.annual_roi = Percent(12)
    /\ engineOut.extra_sip_required = FromInt(0)

(***************************************************************************)
(* Goals                                                                   *)
(***************************************************************************)
RECURSIVE SipOfGoalsAhead(_)
SipOfGoalsAhead(analysed) ==
    IF analysed = <<>> THEN FromInt(0)
    ELSE RatAdd(IF Head(analysed).years_to_goal.num > 0
                THEN Head(analysed).monthly_sip ELSE FromInt(0),
                SipOfGoalsAhead(Tail(analysed)))

FailsForMountedPage ==
    \E i \in DOMAIN requests :
        /\ requests[i].phase = "posted"
        /\ requests[i].live
        /\ requests' = RemoveAt(requests, i)
        /\ ResponseFailed

\* C11: a failed analysis request leaves the store's analysisResults as it
\* was and, if its page is still mounted, leaves the page presenting the
\* error and no result; no page ever presents a result and an error
\* together.
C11_FailedAnalysisShowsOnlyError ==
    [][/\ ResponseFailed => store'.analysisResults = store.analysisResults
       /\ FailsForMountedPage => Rendered(page') = {"error"}
       /\ ~({"error", "results"} \subseteq Rendered(page'))]_vars

\* The financial report page after a Recalculate that failed: it still
\* holds the earlier result, and presents the error alone.
C11_Witness ==
    /\ page.name = "financial"
    /\ page.error
    /\ page.results # Null
    /\ Rendered(page) = {"error"}

\* C12: the surplus that a submitted cash-flow form reports is the leftover
\* of the stored cash flow: the total inflow less the essential and lifestyle
\* expenses, the EMIs and the investments, negative when the outflows are
\* the larger.
C12_ReportedSurplusIsLeftover ==
    \A i \in DOMAIN chat.messages :
        (chat.messages[i].widget = "cashflow"
         /\ chat.messages[i].status = "review") =>
            chat.messages[i].widgetData.totals.surplus =
                Leftover(CashFlowTotals(store))

\* C13: a submitted cash-flow form leaves in outflows.essential the sum of
\* its itemized essential expenses when the essential details are shown and
\* the lump total typed otherwise, and likewise in outflows.lifestyle.
C13_ExpenseModesReconcile ==
    [][CashFlowSubmit =>
          /\ store'.cash_flow.outflows.essential =
                 IF chat.form.showEssentialDetails
                 THEN SumValues(chat.form.essential)
                 ELSE chat.form.simpleTotals.essential
          /\ store'.cash_flow.outflows.lifestyle =
                 IF chat.form.showLifestyleDetails
                 THEN SumValues(chat.form.lifestyle)
                 ELSE chat.form.simpleTotals.lifestyle]_vars

\* A form submitted with itemized essential expenses and a lump lifestyle
\* total, the two differing from what the other mode would have stored.
C13_Witness ==
    /\ \E i \in DOMAIN chat.messages :
           /\ chat.messages[i].widget = "cashflow"
           /\ chat.messages[i].status = "review"
           /\ chat.messages[i].widgetData.totals.expenses = 15 + 60
    /\ "essential_details" \in DOMAIN store.cash_flow.outflows
    /\ "lifestyle_details" \notin DOMAIN store.cash_flow.outflows
    /\ store.cash_flow.outflows.essential = 15
    /\ store.cash_flow.outflows.lifestyle = 60

\* 4.3 Cash Flow -> Retirement Planning: the current monthly expenses
CurrentMonthlyExpenses(s) ==
    s.cash_flow.outflows.essential + s.cash_flow.outflows.lifestyle

\* The outflows but for the two linked values.
UnlinkedOutflows(s) ==
    [k \in DOMAIN s.cash_flow.outflows \ {"linked_emis", "linked_investments"}
        |-> s.cash_flow.outflows[k]]

LinkedStep ==
    \/ AddLiability
    \/ RemoveLiability
    \/ AddInvestment
    \/ RemoveInvestment
    \/ RecalculateLinkedValues

\* C14: adding or removing a liability or an investment, and the
\* recalculation of the linked values, leave the essential and lifestyle
\* expenses (the current monthly expenses of retirement planning) and every
\* inflow as they were; of the cash flow only linked_emis and
\* linked_investments change.
C14_LinkedStepsKeepExpensesAndInflows ==
    [][LinkedStep =>
          /\ store'.cash_flow.outflows.essential =
                 store.cash_flow.outflows.essential
          /\ store'.cash_flow.outflows.lifestyle =
                 store.cash_flow.outflows.lifestyle
          /\ CurrentMonthlyExpenses(store') = CurrentMonthlyExpenses(store)
          /\ store'.cash_flow.inflows = store.cash_flow.inflows
          /\ UnlinkedOutflows(store') = UnlinkedOutflows(store)
          /\ DOMAIN store'.cash_flow = DOMAIN store.cash_flow]_vars

\* Loans and an investment held next to typed expenses and inflows.
C14_Witness ==
    /\ store.liabilities # <<>>
    /\ store.assets.investments # <<>>
    /\ store.cash_flow.outflows.linked_emis > 0
    /\ store.cash_flow.outflows.linked_investments > 0
    /\ LinkedValuesDerived(store)
    /\ store.cash_flow.outflows.essential = 60
    /\ store.cash_flow.outflows.lifestyle = 25
    /\ store.cash_flow.inflows.primary_income = 150

\* 6.1 New User Onboarding: the forms in the order the steps name them.
DocumentedOrder ==
    <<"family", "goals", "assets", "liabilities", "cashflow", "summary">>

IsWidgetMessage(m) == m.sender = "bot" /\ m.widget # "none"

\* The widgets the chat has presented so far, oldest first.
WidgetsPresented ==
    LET shown == SelectSeq(chat.messages, IsWidgetMessage)
    IN  [i \in DOMAIN shown |-> shown[i].widget]

\* C15: the widgets the wizard has presented are, in their order, the
\* first steps of the documented onboarding: family details, goals, assets,
\* liabilities, cash flow and, only after these, the summary dashboard with
\* its analysis.
C15_WidgetsInDocumentedOrder ==
    /\ Len(WidgetsPresented) <= Len(DocumentedOrder)
    /\ WidgetsPresented = SubSeq(DocumentedOrder, 1, Len(WidgetsPresented))

\* C16: when the report page opens and presents an analysis at once, that
\* analysis is the one of the data the store holds at that moment, whatever
\* was changed in the store since an earlier analysis.
C16_ReportPresentsCurrentAnalysis ==
    [][MountReportPageCached =>
          /\ Rendered(page') = {"results"}
          /\ page'.results = Analysis(SnapshotPayload(store))]_vars

\* C17: every age derived from a date of birth is the number of days lived
\* divided by 365.25, fractional and not floored to whole years.
C17_AgeIsFractional ==
    engineOut.kind = "age" =>
        /\ engineOut.engine = Rat(4 * engineIn.days_lived, 1461)
        /\ FromInt(engineOut.family_form) = Rat(4 * engineIn.days_lived, 1461)

\* interface Assumptions: the four rates
AssumptionRates ==
    {"inflation", "child_inflation", "pre_retire_roi", "post_retire_roi"}

\* C18: every snapshot posted to the analysis endpoint has an assumptions
\* section holding all four rates: inflation, child_inflation,
\* pre_retire_roi and post_retire_roi.
C18_PostedAssumptionsComplete ==
    \A i \in DOMAIN requests :
        requests[i].phase = "posted" =>
            /\ "assumptions" \in DOMAIN requests[i].payload
            /\ AssumptionRates \subseteq DOMAIN requests[i].payload.assumptions

\* C19: every liability in the store has a positive EMI and, where its total
\* loan amount is known, an outstanding amount no greater than it, whatever
\* the liability form and the store's actions have done.
C19_StoredLiabilitiesValid ==
    \A i \in DOMAIN store.liabilities :
        LET loan == store.liabilities[i]
        IN  /\ loan.emi > 0
            /\ "total_loan_amount" \in DOMAIN loan =>
                   loan.outstanding <= loan.total_loan_amount

\* Money: bounded [0, 1e12]; the digits of 1e12.
MoneyCap == <<"1">> \o Repeat("0", 12)

\* A non-negative decimal no greater than 1e12.
WithinMoneyRange(v) ==
    /\ ~v.nan
    /\ ~v.negative
    /\ \/ Len(v.int) < Len(MoneyCap)
       \/ v.int = MoneyCap /\ v.frac = <<>>

\* C20: whatever text the input element holds, the value MoneyInput passes
\* to onChange, if it passes one, is a finite number from 0 to 1e12, never
\* NaN, Infinity or negative; and an emptied field passes 0.
C20_MoneyInputEmitsBoundedAmounts ==
    engineOut.kind = "money" =>
        /\ "none" \notin DOMAIN engineOut.emitted =>
               WithinMoneyRange(engineOut.emitted)
        /\ engineIn.text = <<>> => engineOut.emitted = Zero

\* C21: every liability that the liability form has added to the store has
\* a type that is one of the LiabilityType values: Home, Car, Personal or
\* Other.
C21_FormLiabilityTypesInEnum ==
    \A i \in DOMAIN store.liabilities :
        "type" \in DOMAIN store.liabilities[i] =>
            store.liabilities[i].type \in LiabilityTypes

LastMessage(c) == c.messages[Len(c.messages)]

PostedRates(payload) ==
    [inflation |-> payload.assumptions.inflation,
     pre_retire_roi |-> payload.assumptions.pre_retire_roi,
     post_retire_roi |-> payload.assumptions.post_retire_roi]

StoredRates(s) ==
    [inflation |-> s.assumptions.inflation,
     pre_retire_roi |-> s.assumptions.pre_retire_roi,
     post_retire_roi |-> s.assumptions.post_retire_roi]

\* C23: the first analysis request of the financial report page, the one
\* its mount effect schedules, is posted with the inflation, pre_retire_roi
\* and post_retire_roi that the store holds when it is posted.
C23_FirstRequestUsesStoredAssumptions ==
    [][\A i \in DOMAIN requests :
          (/\ requests[i].phase = "scheduled"
           /\ i \in DOMAIN requests'
           /\ requests'[i].phase = "posted")
          => PostedRates(requests'[i].payload) = StoredRates(store')]_vars

IsBotMessage(c, i) == c.messages[i].sender = "bot"

LaterBotMessage(c, i) ==
    \E j \in DOMAIN c.messages : j > i /\ IsBotMessage(c, j)

\* C24: every widget message other than the most recent bot message is
\* locked, so at most one widget message is active or in review and it is
\* the most recent bot message, whatever completions, Edit, Continue, the
\* next-step timer and user text messages have done.
C24_OnlyLatestWidgetOpen ==
    \A i \in DOMAIN chat.messages :
        IsBotMessage(chat, i) /\ LaterBotMessage(chat, i)
            => chat.messages[i].status = "locked"

\* Two locked widgets, then a widget in review that a user message follows.
C24_Witness ==
    /\ C24_OnlyLatestWidgetOpen
    /\ \E i, j, k \in DOMAIN chat.messages :
           /\ i < j /\ j < k
           /\ IsBotMessage(chat, i) /\ chat.messages[i].status = "locked"
           /\ IsBotMessage(chat, j) /\ chat.messages[j].status = "review"
           /\ ~LaterBotMessage(chat, j)
           /\ chat.messages[k].sender = "user"

\* C25: a widget that is active moves to review when it reports completion,
\* also when user text messages have followed its message.
C25_ActiveWidgetCompletes ==
    \A i \in DOMAIN chat.messages :
        chat.messages[i].status = "active" =>
            handleWidgetComplete(chat, NoNextStep, Null).messages[i].status
                = "review"

\* C26: whenever the store holds essential_details, outflows.essential is
\* the sum of its fields, and whenever it holds lifestyle_details,
\* outflows.lifestyle is the sum of its fields.
C26_DetailsSumToTotals ==
    LET outflows == store.cash_flow.outflows
    IN  /\ "essential_details" \in DOMAIN outflows
            => outflows.essential = SumValues(outflows.essential_details)
        /\ "lifestyle_details" \in DOMAIN outflows
            => outflows.lifestyle = SumValues(outflows.lifestyle_details)

\* C27: the age derived from the date of birth that convertAgeToDob makes of
\* an entered whole age, on the same day, is the entered age.
C27_EnteredAgeRoundTrips ==
    engineOut.kind = "entered_age" => engineOut.age = engineIn.age

\* The names of the persons in the store's family roster.
Roster(s) ==
    LET profile == s.user_profile
    IN  {profile.primary.name}
        \cup (IF "spouse" \in DOMAIN profile THEN {profile.spouse.name} ELSE {})
        \cup { profile.family_members[i].name :
                  i \in DOMAIN profile.family_members }

\* C28: every stored goal that carries a person_name names the primary user,
\* the spouse or a family member of the store's current profile.
C28_GoalPersonsInRoster ==
    \A i \in DOMAIN store.goals :
        "person_name" \in DOMAIN store.goals[i] =>
            store.goals[i].person_name \in Roster(store)

\* C29: whenever a response is written into analysisResults, it is the
\* analysis of the data the store holds at that moment; a response to a
\* request issued before a reset or a profile load is not written after it.
C29_StoredAnalysisIsOfCurrentData ==
    [][(/\ store'.analysisResults # store.analysisResults
        /\ store'.analysisResults # Null)
       => store'.analysisResults = Analysis(SnapshotPayload(store'))]_vars

\* The summary step was announced with the text that LiabilityForm.handleNone
\* hands over: the liabilities step was answered with "No loans".
AnsweredNoLoans ==
    \E i \in DOMAIN chat.messages :
        /\ chat.messages[i].widget = "summary"
        /\ chat.messages[i].text = "Understood."

\* C30: once the liabilities step has been answered with "No loans", the
\* snapshot the summary dashboard posts has no liabilities and a linked_emis
\* of 0, whatever loans were added before the step was re-opened.
C30_NoLoansPostsNoLiabilities ==
    AnsweredNoLoans =>
        \A i \in DOMAIN requests :
            requests[i].page = "summary" =>
                /\ requests[i].payload.liabilities = <<>>
                /\ requests[i].payload.cash_flow.outflows.linked_emis = 0


============================================================================
